---- MODULE Spec2Model ----
\* RFD.py: one cron invocation scrapes the trending page, scores each thread,
\* and for every unseen title whose upvotes/replies ratio exceeds 2 writes a
\* row to the deals table, raises a notification and runs the size cleanup.
EXTENDS Integers, Sequences, FiniteSets, TLC

VARIABLES
    store,            \* table deals: rows in rowid (B-tree) order
    txn,              \* per invocation: its connection's open transaction
    nextId,           \* next AUTOINCREMENT id (sqlite_sequence.seq + 1)
    pc,               \* per invocation: position in the script
    seen_titles,      \* per invocation: the set loaded at line 75, grown at 144
    response,         \* per invocation: what requests.get returned
    threads,          \* per invocation: the thread_main items found at line 92
    idx,              \* per invocation: position of the for loop of line 100
    new_deals_found,  \* per invocation: the flag of lines 98 and 158
    forum,            \* environment: highest thread number the forum has listed
    budget,           \* environment: invocations the scheduler still starts
    notified,         \* history: notification attempts per title (a bag)
    lastInsert,       \* history: what the last INSERT OR IGNORE of the run did
    runStart,         \* history: the table when the invocation started
    runLog,           \* history: what this invocation has done so far
                      \*   (counts, and the titles it INSERTed and notified)
    prevRun,          \* history: page and runLog of the invocation before
    dropped,          \* history: titles whose INSERT raised, by invocation age
    evicted,          \* history: the rows the commits have deleted, in order
    last              \* history: the step taken last and its outcome

vars == <<store, nextId, txn, pc, seen_titles, response, threads, idx,
          new_deals_found, forum, budget, notified, lastInsert, runStart,
          runLog, prevRun, dropped, evicted, last>>

\* ---------------------------------------------------------------- bounds

MaxProcs == 2        \* invocation slots (a second one only when runs overlap)
MaxRuns == 2         \* invocations started in one behaviour
MaxPage == 2         \* thread items on one fetched page
DeepRuns == 352      \* invocations of the long behaviours (one new thread each)

Procs == 1..MaxProcs

\* ------------------------------------------------------- program constants

Cap == 300           \* line 62: cleanup triggers above this row count
EvictBatch == 50     \* line 65: rows deleted by one cleanup
Threshold == 2       \* line 143: ratio > 2

BaseUrl == "https://forums.redflagdeals.com"

\* A string is the sequence of its characters
Dollarama == <<"D", "o", "l", "l", "a", "r", "a", "m", "a">>
CostcoWest == <<"C", "o", "s", "t", "c", "o", " ", "W", "e", "s", "t">>
PCOptimum == <<"P", "C", " ", "O", "p", "t", "i", "m", "u", "m">>

\* line 113: the filtered keywords
Keywords == { Dollarama, CostcoWest, PCOptimum }

\* ------------------------------------------------------------ data model

\* the decimal digits of n >= 0
RECURSIVE Digits(_)
Digits(n) ==
    IF n < 10 THEN <<ToString(n)>>
    ELSE Append(Digits(n \div 10), ToString(n % 10))

\* A title is the sequence of its characters; <<>> is the empty string.
\* The text of a thread's link is taken with get_text(strip=True), so it has no
\* surrounding white space and dealtitle.strip() (lines 144, 155) returns it.
\* Title(7) is "Deal 7".
Title(n) == <<"D", "e", "a", "l", " ">> \o Digits(n)

\* Python's None for deal_url (line 103)
NoUrl == <<>>

\* One div.thread_main of the page: link says whether a.thread_title_link is
\* there (text is its text, hasHref whether it has an href attribute, href the
\* attribute), hasVotes / hasPosts whether the two thread_stat divs are there.
\* votesSpan / postsSpan say what the div holds: "int" a span whose text int()
\* accepts once stripped and without commas (votes / posts is that number),
\* "junk" a span whose text int() rejects, "absent" no span at all.
Item(link, text, href, hasVotes, votes, hasPosts, posts) ==
    [link |-> link, text |-> text, hasHref |-> TRUE, href |-> href,
     hasVotes |-> hasVotes, votesSpan |-> "int", votes |-> votes,
     hasPosts |-> hasPosts, postsSpan |-> "int", posts |-> posts]

\* the item with its link's href attribute taken away
WithoutHref(it) == [it EXCEPT !.hasHref = FALSE]
\* the item with a votes / posts div that holds what kind says
WithVotesSpan(it, kind) == [it EXCEPT !.votesSpan = kind]
WithPostsSpan(it, kind) == [it EXCEPT !.postsSpan = kind]

RECURSIVE GCD(_, _)
GCD(a, b) == IF b = 0 THEN a ELSE GCD(b, a % b)

\* line 106: upvotes / replies, or float('inf'); a quotient is kept in lowest
\* terms so that equal quotients are equal values.
Ratio(upvotes, replies) ==
    IF replies > 0
    THEN [inf |-> FALSE, num |-> upvotes \div GCD(upvotes, replies),
          den |-> replies \div GCD(upvotes, replies)]
    ELSE [inf |-> TRUE, num |-> 1, den |-> 0]

\* ratio >= 2 in place of ratio > 2
AboveOrAtThreshold(ratio) == ratio.inf \/ ratio.num >= Threshold * ratio.den

\* ratio > 2 (line 143)
AboveThreshold(ratio) == ratio.inf \/ ratio.num > Threshold * ratio.den

\* a keyword that matches only a title equal to it
IsKeyword(kw, t) == t = kw

\* keyword in dealtitle (line 113), Python's substring test: the characters of
\* the keyword are a contiguous run of the title's characters
Contains(kw, t) ==
    \E i \in 1..(Len(t) - Len(kw) + 1) : SubSeq(t, i, i + Len(kw) - 1) = kw

\* ------------------------------------------------- extraction, lines 102-106

\* dealtitle is None when the link is absent, else the link's text
TitleIsNone(th) == ~th.link
\* "if dealtitle": neither None nor the empty string
TitleTruthy(th) == th.link /\ th.text # <<>>

\* What the expression of line 103, 104 or 105 raises for the item: ['href']
\* on a link without the attribute raises KeyError (only when dealtitle is
\* truthy), .text on the None that find('span') returned AttributeError, and
\* int() on text that is no number ValueError. Nothing catches them.
DealUrlError(th) ==
    IF TitleTruthy(th) /\ ~th.hasHref THEN "KeyError" ELSE "none"
UpvotesError(th) ==
    IF th.hasVotes /\ th.votesSpan = "absent" THEN "AttributeError"
    ELSE IF th.hasVotes /\ th.votesSpan = "junk" THEN "ValueError"
    ELSE "none"
RepliesError(th) ==
    IF th.hasPosts /\ th.postsSpan = "absent" THEN "AttributeError"
    ELSE IF th.hasPosts /\ th.postsSpan = "junk" THEN "ValueError"
    ELSE "none"

\* The values of lines 103-105 when the line raises nothing
DealUrl(th) == IF TitleTruthy(th) THEN <<BaseUrl, th.href>> ELSE NoUrl
Upvotes(th) == IF th.hasVotes THEN th.votes ELSE 0
Replies(th) == IF th.hasPosts THEN th.posts ELSE 0
ThreadRatio(th) == Ratio(Upvotes(th), Replies(th))

\* The exception that ends the extraction of lines 103-105: that of the first
\* line that raises
ExtractionError(th) ==
    IF DealUrlError(th) # "none" THEN DealUrlError(th)
    ELSE IF UpvotesError(th) # "none" THEN UpvotesError(th)
    ELSE RepliesError(th)

\* line 113: the keyword filter
Filtered(th) == TitleTruthy(th) /\ \E kw \in Keywords : Contains(kw, th.text)

\* line 143 without its seen_titles test
PassesCriteriaUnseenOrNot(th, seen) == AboveThreshold(ThreadRatio(th))

\* line 143: ratio > 2 and dealtitle not in seen_titles. The set holds strings
\* only, so None is never in it.
PassesCriteria(th, seen) ==
    AboveThreshold(ThreadRatio(th)) /\ (TitleIsNone(th) \/ th.text \notin seen)

\* ---------------------------------------------------------------- the table

Row(id, th) ==
    [id |-> id, title |-> th.text, upvotes |-> Upvotes(th),
     replies |-> Replies(th), ratio |-> ThreadRatio(th), url |-> DealUrl(th)]

Titles(st) == { st[i].title : i \in 1..Len(st) }

\* INSERT OR REPLACE in place of INSERT OR IGNORE
InsertOrReplace(st, row) ==
    Append(SelectSeq(st, LAMBDA r : r.title # row.title), row)

\* lines 147-151: INSERT OR IGNORE on the UNIQUE title column, then commit
InsertOrIgnore(st, row) ==
    IF row.title \in Titles(st) THEN st ELSE Append(st, row)

\* lines 64-66: SELECT id FROM deals ORDER BY id LIMIT 50
OldestIds(st) ==
    { st[i].id : i \in 1..(IF Len(st) < EvictBatch THEN Len(st) ELSE EvictBatch) }

\* ------------------------------------------------------------- environment

ThreadItem(n, votes, posts) ==
    Item(TRUE, Title(n), ToString(n), TRUE, votes, TRUE, posts)

\* words for the titles of the pages
Sp == <<" ">>
Flyer == <<"f", "l", "y", "e", "r">>
Deal == <<"d", "e", "a", "l">>
CostcoEast == <<"C", "o", "s", "t", "c", "o", " ", "E", "a", "s", "t">>
HotCostcoWestern ==
    <<"H", "o", "t">> \o Sp \o CostcoWest \o <<"e", "r", "n">> \o Sp \o Deal

RECURSIVE SeqsUpTo(_, _)
SeqsUpTo(S, n) ==
    IF n = 0 THEN { <<>> }
    ELSE LET shorter == SeqsUpTo(S, n - 1)
         IN  shorter \cup { Append(q, x) : q \in shorter, x \in S }

\* What requests.get gave: a page's markup (whether ul.topiclist... is there,
\* and its items), a RequestException, or nothing yet
Markup(container, items) ==
    [status |-> "ok", container |-> container, items |-> items]
FetchError == [status |-> "error", container |-> FALSE, items |-> <<>>]
NoResponse == [status |-> "none", container |-> FALSE, items |-> <<>>]

\* What a fetch can return: a page, and the forum's thread count with it
PagesOf(items, f) ==
    { [page |-> Markup(TRUE, q), forum |-> f] : q \in SeqsUpTo(items, MaxPage) }

\* The shapes of item that the extraction of lines 102-106 tells apart
WideItems ==
    { ThreadItem(1, 5, 1),                          \* ratio 5
      ThreadItem(1, 2, 1),                          \* the same, ratio exactly 2
      ThreadItem(2, 3, 0),                          \* no replies: inf
      Item(TRUE, Title(3), "3", FALSE, 0, FALSE, 0),  \* no counts: 0 / 0
      Item(TRUE, <<>>, "e", TRUE, 7, TRUE, 1),      \* link with empty text
      Item(FALSE, <<>>, "", TRUE, 7, TRUE, 1),      \* no link, ratio 7
      Item(FALSE, <<>>, "", TRUE, 1, TRUE, 1),      \* no link, ratio 1
      Item(TRUE, Dollarama \o Sp \o Flyer, "d", TRUE, 50, TRUE, 5),
      WithoutHref(ThreadItem(4, 5, 1)),             \* link without href
      WithVotesSpan(ThreadItem(4, 1, 1), "junk"),   \* votes no number
      WithPostsSpan(ThreadItem(4, 1, 1), "absent") }  \* posts div, no span

\* The items the failure paths tell apart: a thread above the threshold, the
\* same thread at ratio exactly 2, a second thread, and an item without a link
CoreItems ==
    { ThreadItem(1, 5, 1), ThreadItem(1, 2, 1), ThreadItem(2, 3, 0),
      Item(FALSE, <<>>, "", TRUE, 7, TRUE, 1) }

\* At the cap: the oldest stored thread again, a thread not stored, and an
\* item without a link
CapItems ==
    { ThreadItem(1, 9, 2), ThreadItem(Cap + 1, 5, 1),
      Item(FALSE, <<>>, "", TRUE, 7, TRUE, 1) }

\* At the cap: two threads not stored
PendingItems == { ThreadItem(Cap + 1, 5, 1), ThreadItem(Cap + 2, 3, 0) }

\* Overlapping invocations: one thread, whose counts move between fetches
OverlapItems == { ThreadItem(1, 5, 1), ThreadItem(1, 9, 2) }

\* The pages that list that one thread
OverlapPages(f) ==
    { [page |-> Markup(TRUE, <<it>>), forum |-> f] : it \in OverlapItems }

\* Counts on both sides of the threshold: ratio 5/2, ratio 4/2 (exactly 2),
\* no replies, both counts absent (0 and 0), and no upvotes
ScoreItems ==
    { ThreadItem(1, 5, 2), ThreadItem(1, 4, 2), ThreadItem(2, 3, 0),
      Item(TRUE, Title(3), "3", FALSE, 0, FALSE, 0), ThreadItem(3, 0, 2) }

\* Titles with a filtered keyword: "Dollaramas flyer" (inside a longer word,
\* ratio 10), "Hot Costco Western deal" (inside the title and a longer word, no
\* replies), "PC Optimum" (the whole title, no counts); titles without one:
\* "Costco East" and "dollarama" (another case)
KeywordItems ==
    { Item(TRUE, Dollarama \o <<"s">> \o Sp \o Flyer, "d", TRUE, 50, TRUE, 5),
      Item(TRUE, HotCostcoWestern, "c", TRUE, 3, TRUE, 0),
      Item(TRUE, PCOptimum, "p", FALSE, 0, FALSE, 0),
      Item(TRUE, CostcoEast, "e", TRUE, 9, TRUE, 1),
      Item(TRUE, <<"d", "o", "l", "l", "a", "r", "a", "m", "a">>,
           "l", TRUE, 9, TRUE, 1) }

\* Markup without the ul of line 91, next to the pages that have it (empty or
\* with thread items)
PagesOrNoContainer(items, f) ==
    PagesOf(items, f) \cup { [page |-> Markup(FALSE, <<>>), forum |-> f] }

\* Overlapping invocations at the cap: a thread that is not stored, which the
\* first two invocations fetch with counts of their own; the first finds a
\* second such thread after it, and the invocations after the second find the
\* page empty
CapOverlapPages(f, p) ==
    { [page |-> Markup(TRUE, IF p = 1
                             THEN <<ThreadItem(Cap + 1, 4 + p, 1),
                                    ThreadItem(Cap + 2, 5, 1)>>
                             ELSE IF p = 2
                             THEN <<ThreadItem(Cap + 1, 4 + p, 1)>>
                             ELSE <<>>),
       forum |-> f] }

\* A long history: every page lists one thread never listed before
DeepPages(f) ==
    { [page |-> Markup(TRUE, <<ThreadItem(f + 1, 5, 1)>>), forum |-> f + 1] }

AllOutcomes == {"ok", "error"}
NoError == {"ok"}

\* What a statement on the table and its commit can do: go through ("ok");
\* raise at execute with the transaction left as it was ("execute"); raise at
\* commit with the transaction left open ("commit", database is locked); raise
\* an error on which SQLite rolls the whole transaction back ("rollback":
\* database or disk is full at execute, disk I/O error at commit)
StorageFaults == {"ok", "execute", "commit", "rollback"}

\* ------------------------------------------------------------- the script

Active(p) == pc[p] \notin {"idle", "done", "crashed"}

NewLog == [notes |-> 0, noteFails |-> 0, passes |-> 0, evicted |-> 0,
           errors |-> 0, tried |-> <<>>, told |-> <<>>]

Bump(log, field) == [log EXCEPT ![field] = @ + 1]

\* the log with the title t added to the titles INSERTed (tried) or notified
\* (told) in this invocation
Noted(log, field, t) == [log EXCEPT ![field] = Append(@, t)]

\* the bag b with one more of the title t
TallyOne(b, t) ==
    IF t \in DOMAIN b THEN [b EXCEPT ![t] = @ + 1] ELSE (t :> 1) @@ b

\* the rows of st that are no longer in st2
Gone(st, st2) ==
    LET ids == { st2[i].id : i \in 1..Len(st2) }
    IN  SelectSeq(st, LAMBDA r : r.id \notin ids)

NoDrops == [now |-> {}, before |-> {}]

\* A connection without an open transaction
NoTxn == [open |-> FALSE, table |-> <<>>, nextId |-> 0]

\* The table and the AUTOINCREMENT counter as the connection of p sees them:
\* its own uncommitted statements on top of what was committed
View(p) == IF txn[p].open THEN txn[p].table ELSE store
ViewNextId(p) == IF txn[p].open THEN txn[p].nextId ELSE nextId

\* Another connection holds the lock on the file: its transaction is still
\* open, after a commit that raised
Locked(p) == \E q \in Procs \ {p} : txn[q].open

\* What the statements of lines 42, 74 and 170 can raise on p's connection,
\* none of them inside a try: nothing that the caller did not allow, and
\* "database is locked" as long as another connection's transaction is open
ReadOutcomes(p, outcomes) == IF Locked(p) THEN {"error"} ELSE outcomes

\* What the invocation's statements can raise on p's connection: nothing that the
\* caller did not allow, and "database is locked" at execute as long as another
\* connection's transaction is open
StorageOutcomes(p, outcomes) == IF Locked(p) THEN {"execute"} ELSE outcomes

\* A writing statement and the conn.commit() after it (lines 147-151, 63-68),
\* where the statement alone turns the view into <<table, id>>. "ok": both went
\* through, and everything the transaction holds is committed. "execute": the
\* statement raised, nothing changed. "commit": the statement went through and
\* conn.commit() raised; the handler of lines 163-164 does not roll back, so
\* the change stays in the connection's open transaction. "rollback": either
\* of them raised and SQLite rolled back everything the transaction held.
Written(p, out, table, id) ==
    CASE out = "ok" ->
           /\ store' = table
           /\ nextId' = id
           /\ txn' = [txn EXCEPT ![p] = NoTxn]
      [] out = "commit" ->
           /\ txn' = [txn EXCEPT ![p] =
                        [open |-> TRUE, table |-> table, nextId |-> id]]
           /\ UNCHANGED <<store, nextId>>
      [] out = "rollback" ->
           /\ txn' = [txn EXCEPT ![p] = NoTxn]
           /\ UNCHANGED <<store, nextId>>
      [] OTHER -> UNCHANGED <<store, nextId, txn>>

\* The rows that leave the committed table when the outcome is out and the
\* connection's view becomes table
Leaving(out, table) == IF out = "ok" THEN Gone(store, table) ELSE <<>>

\* an invocation that starts with an empty set
LoadNoTitles(st) == {}

\* lines 73-75: SELECT title FROM deals into a set
LoadSeenTitles(st) == Titles(st)

\* lines 182-183, 38-53 and 73-75: setup_database, then the titles are loaded.
\* Neither is inside a try: a sqlite3.Error there ends the invocation, and
\* "database is locked" is one while another connection's transaction is open.
StartRun(p, outcomes) ==
    /\ ~Active(p)
    /\ budget > 0
    /\ budget' = budget - 1
    /\ \E out \in ReadOutcomes(p, outcomes) :
         /\ pc' = [pc EXCEPT ![p] = IF out = "ok" THEN "fetch" ELSE "crashed"]
         /\ seen_titles' = [seen_titles EXCEPT ![p] =
                              IF out = "ok" THEN LoadSeenTitles(store) ELSE {}]
         /\ last' = [op |-> "start", p |-> p, out |-> out]
    /\ response' = [response EXCEPT ![p] = NoResponse]
    /\ threads' = [threads EXCEPT ![p] = <<>>]
    /\ idx' = [idx EXCEPT ![p] = 0]
    /\ new_deals_found' = [new_deals_found EXCEPT ![p] = FALSE]
    /\ lastInsert' = [lastInsert EXCEPT ![p] = "none"]
    /\ runStart' = [runStart EXCEPT ![p] = store]
    /\ runLog' = [runLog EXCEPT ![p] = NewLog]
    /\ prevRun' = [prevRun EXCEPT ![p] =
                     [page |-> response[p], drops |-> dropped[p].now,
                      evicted |-> runLog[p].evicted]]
    /\ dropped' = [dropped EXCEPT ![p] =
                     [now |-> {}, before |-> (@.now \cup @.before) \ Titles(store)]]
    /\ UNCHANGED <<store, nextId, txn, forum, notified, evicted>>

\* a fetch that is tried again in the same invocation
FetchErrorRetry == "fetch"

\* lines 85-87: the except logs and returns from deal_scraper
FetchErrorPc == "done"

\* lines 78-87: requests.get and raise_for_status; a RequestException ends the
\* invocation. outcomes says whether the request may fail, pages what it may
\* return.
Fetch(p, outcomes, pages) ==
    /\ pc[p] = "fetch"
    /\ \/ /\ "error" \in outcomes
          /\ response' = [response EXCEPT ![p] = FetchError]
          /\ pc' = [pc EXCEPT ![p] = FetchErrorPc]
          /\ last' = [op |-> "fetch", p |-> p, out |-> "error"]
          /\ UNCHANGED forum
       \/ /\ "ok" \in outcomes
          /\ \E got \in pages :
               /\ response' = [response EXCEPT ![p] = got.page]
               /\ forum' = got.forum
          /\ pc' = [pc EXCEPT ![p] = "parse"]
          /\ last' = [op |-> "fetch", p |-> p, out |-> "ok"]
    /\ UNCHANGED <<store, nextId, txn, seen_titles, threads, idx,
                   new_deals_found, budget, notified, lastInsert, runStart,
                   runLog, prevRun, dropped, evicted>>

\* lines 90-98: soup.find returns None when the container is absent, and
\* None.find_all raises AttributeError, which nothing catches
Parse(p) ==
    /\ pc[p] = "parse"
    /\ IF response[p].container
       THEN /\ threads' = [threads EXCEPT ![p] = response[p].items]
            /\ idx' = [idx EXCEPT ![p] = 1]
            /\ pc' = [pc EXCEPT ![p] = "loop"]
            /\ last' = [op |-> "parse", p |-> p, out |-> "ok"]
       ELSE /\ pc' = [pc EXCEPT ![p] = "crashed"]
            /\ last' = [op |-> "parse", p |-> p, out |-> "crash"]
            /\ UNCHANGED <<threads, idx>>
    /\ UNCHANGED <<store, nextId, txn, seen_titles, response, new_deals_found,
                   forum, budget, notified, lastInsert, runStart, runLog,
                   prevRun, dropped, evicted>>

\* lines 100-144: one pass of the loop body up to the INSERT. An exception of
\* lines 103-105 ends the invocation, whatever the title and the counts are;
\* the keyword filter continues; a record that passes line 143 is added to
\* seen_titles, and None.strip() at line 144 raises AttributeError outside the
\* try. The process that ends takes its open transaction with it.
Evaluate(p) ==
    /\ pc[p] = "loop"
    /\ idx[p] <= Len(threads[p])
    /\ LET th == threads[p][idx[p]] IN
         IF ExtractionError(th) # "none"
         THEN /\ pc' = [pc EXCEPT ![p] = "crashed"]
              /\ txn' = [txn EXCEPT ![p] = NoTxn]
              /\ last' = [op |-> "evaluate", p |-> p, out |-> "crash"]
              /\ UNCHANGED <<idx, seen_titles>>
         ELSE IF Filtered(th) \/ ~PassesCriteria(th, seen_titles[p])
         THEN /\ idx' = [idx EXCEPT ![p] = @ + 1]
              /\ last' = [op |-> "evaluate", p |-> p, out |-> "skip"]
              /\ UNCHANGED <<pc, seen_titles, txn>>
         ELSE IF TitleIsNone(th)
         THEN /\ pc' = [pc EXCEPT ![p] = "crashed"]
              /\ txn' = [txn EXCEPT ![p] = NoTxn]
              /\ last' = [op |-> "evaluate", p |-> p, out |-> "crash"]
              /\ UNCHANGED <<idx, seen_titles>>
         ELSE /\ seen_titles' = [seen_titles EXCEPT ![p] = @ \cup {th.text}]
              /\ pc' = [pc EXCEPT ![p] = "insert"]
              /\ last' = [op |-> "evaluate", p |-> p, out |-> "new"]
              /\ UNCHANGED <<idx, txn>>
    /\ UNCHANGED <<store, nextId, response, threads, new_deals_found, forum,
                   budget, notified, lastInsert, runStart, runLog, prevRun,
                   dropped, evicted>>

\* lines 146-151 and 163-164: the INSERT OR IGNORE and its commit. The INSERT
\* takes the next AUTOINCREMENT value whether or not the row is ignored. A
\* sqlite3.Error is logged and the loop goes on with the next thread.
Insert(p, outcomes) ==
    /\ pc[p] = "insert"
    /\ LET th == threads[p][idx[p]]
           row == Row(ViewNextId(p), th)
           table == InsertOrIgnore(View(p), row)
       IN  \E out \in StorageOutcomes(p, outcomes) :
             /\ Written(p, out, table, ViewNextId(p) + 1)
             /\ last' = [op |-> "insert", p |-> p, out |-> out]
             /\ IF out = "ok"
                THEN /\ lastInsert' = [lastInsert EXCEPT ![p] =
                           IF table = View(p) THEN "ignored" ELSE "added"]
                     /\ pc' = [pc EXCEPT ![p] = "notify"]
                     /\ runLog' = [runLog EXCEPT ![p] =
                           [Noted(@, "tried", th.text) EXCEPT
                              !.evicted = @ + Len(Leaving(out, table))]]
                     /\ UNCHANGED <<idx, dropped>>
                ELSE /\ lastInsert' = [lastInsert EXCEPT ![p] = "error"]
                     /\ runLog' = [runLog EXCEPT ![p] =
                                      Noted(Bump(@, "errors"), "tried", th.text)]
                     /\ dropped' = [dropped EXCEPT ![p].now = @ \cup {th.text}]
                     /\ pc' = [pc EXCEPT ![p] = "loop"]
                     /\ idx' = [idx EXCEPT ![p] = @ + 1]
             /\ evicted' = evicted \o Leaving(out, table)
    /\ UNCHANGED <<seen_titles, response, threads, new_deals_found, forum,
                   budget, notified, runStart, prevRun>>

\* a send_notification that lets the exception out
NotifyFailedRaises == "crashed"

\* lines 34-35: the except of send_notification logs and returns, so the
\* script carries on at line 158
NotifyFailedPc == "cleanup"

\* lines 153-158 and 31-35: send_notification catches whatever Notifier.notify
\* raises; then the flag is set
Notify(p, outcomes) ==
    /\ pc[p] = "notify"
    /\ notified' = TallyOne(notified, threads[p][idx[p]].text)
    /\ \E out \in outcomes :
         /\ runLog' = [runLog EXCEPT ![p] =
               Noted(IF out = "error" THEN Bump(Bump(@, "notes"), "noteFails")
                     ELSE Bump(@, "notes"),
                     "told", threads[p][idx[p]].text)]
         /\ last' = [op |-> "notify", p |-> p, out |-> out]
         /\ pc' = [pc EXCEPT ![p] =
               IF out = "error" THEN NotifyFailedPc ELSE "cleanup"]
    /\ new_deals_found' = [new_deals_found EXCEPT ![p] = TRUE]
    /\ UNCHANGED <<store, nextId, txn, seen_titles, response, threads, idx,
                   forum, budget, lastInsert, runStart, prevRun, dropped,
                   evicted>>

\* count >= 300 in place of count > 300
AtCap(count) == count >= Cap

\* line 62: the test on the count that line 58 read
OverCap(count) == count > Cap

\* lines 63-67: the table without its 50 lowest ids
Deleted(st) == SelectSeq(st, LAMBDA r : r.id \notin OldestIds(st))

\* lines 160-164 and 56-69: cleanup_old_deals, in the two steps it takes: the
\* SELECT COUNT(*) of lines 58-62 (at "cleanup"), and, when the count is over
\* 300, the DELETE and its commit of lines 63-68 (at "delete"), which act on
\* the table as it is by then. A sqlite3.Error in either is caught by the same
\* handler as the INSERT's; one on which SQLite rolls back takes the open
\* transaction with it.
Cleanup(p, outcomes) ==
    /\ pc[p] \in {"cleanup", "delete"}
    /\ IF pc[p] = "cleanup"
       THEN \E out \in StorageOutcomes(p, outcomes) \ {"commit"} :
              /\ runLog' = [runLog EXCEPT ![p] =
                    IF out = "ok" THEN Bump(@, "passes")
                    ELSE Bump(Bump(@, "passes"), "errors")]
              /\ IF out = "ok" /\ OverCap(Len(View(p)))
                 THEN /\ pc' = [pc EXCEPT ![p] = "delete"]
                      /\ last' = [op |-> "cleanup", p |-> p, out |-> "count"]
                      /\ UNCHANGED idx
                 ELSE /\ pc' = [pc EXCEPT ![p] = "loop"]
                      /\ idx' = [idx EXCEPT ![p] = @ + 1]
                      /\ last' = [op |-> "cleanup", p |-> p,
                                  out |-> IF out = "ok" THEN "ok" ELSE "error"]
              /\ txn' = IF out = "rollback"
                        THEN [txn EXCEPT ![p] = NoTxn] ELSE txn
              /\ UNCHANGED <<store, nextId, evicted>>
       ELSE \E out \in StorageOutcomes(p, outcomes) :
              /\ Written(p, out, Deleted(View(p)), ViewNextId(p))
              /\ runLog' = [runLog EXCEPT ![p] =
                    IF out = "ok"
                    THEN [@ EXCEPT !.evicted =
                            @ + Len(Leaving(out, Deleted(View(p))))]
                    ELSE Bump(@, "errors")]
              /\ evicted' = evicted \o Leaving(out, Deleted(View(p)))
              /\ pc' = [pc EXCEPT ![p] = "loop"]
              /\ idx' = [idx EXCEPT ![p] = @ + 1]
              /\ last' = [op |-> "cleanup", p |-> p,
                          out |-> IF out = "ok" THEN "ok" ELSE "error"]
    /\ UNCHANGED <<seen_titles, response, threads, new_deals_found, forum,
                   budget, notified, lastInsert, runStart, prevRun, dropped>>

\* lines 166-179: the loop is over; the summary is logged. When a deal was
\* found, the SELECT of line 170 runs outside any try, and a sqlite3.Error in
\* it ends the invocation, "database is locked" while another connection's
\* transaction is open. The process ends either way, and its open transaction
\* is rolled back.
Finish(p, outcomes) ==
    /\ pc[p] = "loop"
    /\ idx[p] > Len(threads[p])
    /\ \E out \in (IF new_deals_found[p] THEN ReadOutcomes(p, outcomes)
                   ELSE {"ok"}) :
         /\ pc' = [pc EXCEPT ![p] = IF out = "ok" THEN "done" ELSE "crashed"]
         /\ last' = [op |-> "finish", p |-> p, out |-> out]
    /\ txn' = [txn EXCEPT ![p] = NoTxn]
    /\ UNCHANGED <<store, nextId, seen_titles, response, threads, idx,
                   new_deals_found, forum, budget, notified, lastInsert,
                   runStart, runLog, prevRun, dropped, evicted>>

\* ------------------------------------------------------------ specifications

\* The table after n invocations that each found one new thread: rows 1..n
StoreOf(n) == [i \in 1..n |-> Row(i, ThreadItem(i, 5, 1))]

InitWith(n, invocations) ==
    /\ store = StoreOf(n)
    /\ nextId = n + 1
    /\ txn = [p \in Procs |-> NoTxn]
    /\ forum = n
    /\ budget = invocations
    /\ notified = [t \in Titles(StoreOf(n)) |-> 1]
    /\ pc = [p \in Procs |-> "idle"]
    /\ seen_titles = [p \in Procs |-> {}]
    /\ response = [p \in Procs |-> NoResponse]
    /\ threads = [p \in Procs |-> <<>>]
    /\ idx = [p \in Procs |-> 0]
    /\ new_deals_found = [p \in Procs |-> FALSE]
    /\ lastInsert = [p \in Procs |-> "none"]
    /\ runStart = [p \in Procs |-> <<>>]
    /\ runLog = [p \in Procs |-> NewLog]
    /\ prevRun = [p \in Procs |-> [page |-> NoResponse, drops |-> {}, evicted |-> 0]]
    /\ dropped = [p \in Procs |-> NoDrops]
    /\ evicted = << >>
    /\ last = [op |-> "init", p |-> 0, out |-> "ok"]

\* Serialized invocations (the cron job) on an empty table: one run after the
\* other, every failure
Init == InitWith(0, MaxRuns)

Next ==
    \/ StartRun(1, AllOutcomes)
    \/ Fetch(1, AllOutcomes, PagesOf(CoreItems, forum))
    \/ Parse(1)
    \/ Evaluate(1)
    \/ Insert(1, StorageFaults)
    \/ Notify(1, AllOutcomes)
    \/ Cleanup(1, StorageFaults)
    \/ Finish(1, AllOutcomes)

Spec == Init /\ [][Next]_vars

\* The same on pages of every shape of thread item
InitWide == InitWith(0, MaxRuns)

NextWide ==
    \/ StartRun(1, AllOutcomes)
    \/ Fetch(1, AllOutcomes, PagesOf(WideItems, forum))
    \/ Parse(1)
    \/ Evaluate(1)
    \/ Insert(1, StorageFaults)
    \/ Notify(1, AllOutcomes)
    \/ Cleanup(1, StorageFaults)
    \/ Finish(1, AllOutcomes)

SpecWide == InitWide /\ [][NextWide]_vars

\* Serialized invocations on a table that holds Cap rows, where the fetch and
\* every statement on the table and every commit may fail
InitCap == InitWith(Cap, MaxRuns)

NextCap ==
    \/ StartRun(1, NoError)
    \/ Fetch(1, AllOutcomes, PagesOf(CapItems, forum))
    \/ Parse(1)
    \/ Evaluate(1)
    \/ Insert(1, StorageFaults)
    \/ Notify(1, NoError)
    \/ Cleanup(1, StorageFaults)
    \/ Finish(1, NoError)

SpecCap == InitCap /\ [][NextCap]_vars

\* Serialized invocations on a table that holds Cap rows and pages of threads
\* that are not stored, where every statement on the table and every commit
\* may raise sqlite3.Error
InitPending == InitWith(Cap, MaxRuns)

NextPending ==
    \/ StartRun(1, NoError)
    \/ Fetch(1, NoError, PagesOf(PendingItems, forum))
    \/ Parse(1)
    \/ Evaluate(1)
    \/ Insert(1, StorageFaults)
    \/ Notify(1, NoError)
    \/ Cleanup(1, StorageFaults)
    \/ Finish(1, NoError)

SpecPending == InitPending /\ [][NextPending]_vars

\* A long serialized history from the empty table: every invocation finds one
\* new thread, and a cleanup that has rows to delete may raise sqlite3.Error
InitDeep == InitWith(0, DeepRuns)

NextDeep ==
    \/ StartRun(1, NoError)
    \/ Fetch(1, NoError, DeepPages(forum))
    \/ Parse(1)
    \/ Evaluate(1)
    \/ Insert(1, NoError)
    \/ Notify(1, NoError)
    \/ Cleanup(1, IF Len(store) > Cap THEN StorageFaults ELSE NoError)
    \/ Finish(1, NoError)

SpecDeep == InitDeep /\ [][NextDeep]_vars

\* Two invocations that overlap (no lock serializes them), on an empty table
InitOverlap == InitWith(0, MaxRuns)

NextOverlap ==
    \E p \in Procs :
        \/ StartRun(p, NoError)
        \/ Fetch(p, NoError, OverlapPages(forum))
        \/ Parse(p)
        \/ Evaluate(p)
        \/ Insert(p, NoError)
        \/ Notify(p, NoError)
        \/ Cleanup(p, NoError)
        \/ Finish(p, NoError)

SpecOverlap == InitOverlap /\ [][NextOverlap]_vars

\* Serialized invocations on an empty table, no failure, pages whose counts
\* lie on both sides of the threshold
InitScore == InitWith(0, MaxRuns)

NextScore ==
    \/ StartRun(1, NoError)
    \/ Fetch(1, NoError, PagesOf(ScoreItems, forum))
    \/ Parse(1)
    \/ Evaluate(1)
    \/ Insert(1, NoError)
    \/ Notify(1, NoError)
    \/ Cleanup(1, NoError)
    \/ Finish(1, NoError)

SpecScore == InitScore /\ [][NextScore]_vars

\* Serialized invocations on an empty table, no failure, pages with filtered
\* titles
InitKeyword == InitWith(0, MaxRuns)

NextKeyword ==
    \/ StartRun(1, NoError)
    \/ Fetch(1, NoError, PagesOf(KeywordItems, forum))
    \/ Parse(1)
    \/ Evaluate(1)
    \/ Insert(1, NoError)
    \/ Notify(1, NoError)
    \/ Cleanup(1, NoError)
    \/ Finish(1, NoError)

SpecKeyword == InitKeyword /\ [][NextKeyword]_vars

\* Serialized invocations on an empty table whose fetch may return markup
\* without the trending container
InitMarkup == InitWith(0, MaxRuns)

NextMarkup ==
    \/ StartRun(1, NoError)
    \/ Fetch(1, AllOutcomes, PagesOrNoContainer(OverlapItems, forum))
    \/ Parse(1)
    \/ Evaluate(1)
    \/ Insert(1, NoError)
    \/ Notify(1, NoError)
    \/ Cleanup(1, NoError)
    \/ Finish(1, NoError)

SpecMarkup == InitMarkup /\ [][NextMarkup]_vars

\* Invocations that overlap on a table that holds Cap rows: the INSERT of a
\* title that is in the table and the cleanup that deletes rows both happen.
\* The commit of a cleanup may raise, which leaves its DELETE pending and the
\* file locked to the other invocations until that process ends
InitCapOverlap == InitWith(Cap, MaxRuns)

NextCapOverlap ==
    \E p \in Procs :
        \/ pc[p] = "idle" /\ StartRun(p, NoError)
        \/ Fetch(p, NoError, CapOverlapPages(forum, p))
        \/ Parse(p)
        \/ Evaluate(p)
        \/ Insert(p, NoError)
        \/ Notify(p, NoError)
        \/ Cleanup(p, {"ok", "commit"})
        \/ Finish(p, NoError)

SpecCapOverlap == InitCapOverlap /\ [][NextCapOverlap]_vars

\* ------------------------------------------------------------------ claims

\* the thread item the loop of line 100 is at
Current(p) == threads[p][idx[p]]

\* C1: a notification is attempted only after an INSERT that added a row; when
\* the title was already in the table at the INSERT (a stale seen_titles), no
\* notification is attempted.
C1_NotifyOnlyIfInserted ==
    last.op = "notify" => lastInsert[last.p] = "added"

\* how often a row with title t has been evicted
TimesEvicted(t) == Cardinality({ i \in 1..Len(evicted) : evicted[i].title = t })

\* C2 as stated: over serialized invocations, cleanups included, no title is
\* ever notified twice.
C2_AtMostOncePerTitle ==
    \A t \in DOMAIN notified : notified[t] <= 1

\* C2 amended: a title is notified at most once more than its row was evicted
\* (at most once as long as no cleanup removed its row).
C2_AtMostOncePerStoredRow ==
    \A t \in DOMAIN notified :
        notified[t] > 1 => notified[t] <= 1 + TimesEvicted(t)

C2_Witness ==
    \E t \in DOMAIN notified : notified[t] = 2 /\ TimesEvicted(t) = 1

\* the invocation in slot p fetched the page the invocation before it fetched
SamePageAgain(p) ==
    response[p].status = "ok" /\ response[p] = prevRun[p].page

\* C3 as stated: an invocation on the page of the invocation before it leaves
\* the table as it found it and attempts no notification.
C3_SecondRunIdempotent ==
    SamePageAgain(1) => (store = runStart[1] /\ runLog[1].notes = 0)

\* C3 amended: the same, provided the first invocation dropped no deal on a
\* sqlite3.Error and its cleanups evicted no row.
C3_SecondRunIdempotentIfFirstKeptAll ==
    (SamePageAgain(1) /\ prevRun[1].drops = {} /\ prevRun[1].evicted = 0)
        => (store = runStart[1] /\ runLog[1].notes = 0)

C3_Witness ==
    /\ pc[1] = "done"
    /\ SamePageAgain(1) /\ prevRun[1].drops = {} /\ prevRun[1].evicted = 0
    /\ \E i \in 1..Len(threads[1]) :
         /\ threads[1][i].link
         /\ AboveThreshold(ThreadRatio(threads[1][i]))
         /\ threads[1][i].text \in Titles(store) \ Titles(StoreOf(Cap))

\* C4: no two rows ever have the same title, and an INSERT of a title that the
\* connection sees in the table leaves the table as the connection saw it, the
\* row count and every row, and is no error: unless the statement or the
\* commit fails for another reason, the script goes on to line 153.
C4_TitlesUnique ==
    /\ [](\A i, j \in 1..Len(store) :
            store[i].title = store[j].title => i = j)
    /\ [][\A p \in Procs :
            (/\ pc[p] = "insert"
             /\ last'.op = "insert" /\ last'.p = p /\ last'.out = "ok"
             /\ Current(p).text \in Titles(View(p)))
            => (/\ store' = View(p)
                /\ Len(store') = Len(View(p))
                /\ pc'[p] = "notify")]_vars

C4_Witness ==
    /\ last.op = "insert"
    /\ lastInsert[last.p] = "ignored"
    /\ Len(store) = 1
    /\ store[1].upvotes # Upvotes(Current(last.p))

\* C5: right after a cleanup pass that ran to its end the table holds at most
\* 300 rows, also after earlier passes raised sqlite3.Error.
C5_SizeWithinCapAfterPass ==
    (last.op = "cleanup" /\ last.out = "ok") => Len(store) <= Cap

\* C6: a cleanup pass on n rows removes, when n > 300, exactly the 50 rows of
\* lowest id, each older than every row kept and none beyond the 250 oldest;
\* when n <= 300 it removes nothing.
\* The pass is the SELECT COUNT(*) and, when it counted more than 300, the
\* DELETE with its commit: the count step goes on to the DELETE exactly when
\* n > 300 and removes nothing itself, and the DELETE that commits removes the
\* 50 rows of the n.
C6_PassEvictsOldestFifty ==
    [][\A p \in Procs :
        (last'.op = "cleanup" /\ last'.p = p /\ last'.out \in {"ok", "count"})
        => LET n == Len(store) IN
             IF pc[p] = "cleanup"
             THEN /\ store' = store
                  /\ pc'[p] = "delete" <=> n > Cap
             ELSE /\ n > Cap
                  /\ Len(store') = n - EvictBatch
                  /\ store' = SubSeq(store, EvictBatch + 1, n)
                  /\ \A i \in 1..EvictBatch : \A j \in 1..Len(store') :
                        store[i].id < store'[j].id
                  /\ \A i \in (Cap - EvictBatch + 1)..n :
                        \E j \in 1..Len(store') : store'[j] = store[i]]_vars

C6_Witness ==
    /\ last.op = "cleanup" /\ last.out = "ok"
    /\ runLog[1].evicted = EvictBatch
    /\ Len(store) = Cap + 1 - EvictBatch
    /\ store[1].id = EvictBatch + 1

\* C7: a failed fetch ends the invocation: the table is as the invocation found
\* it, nothing was notified, no cleanup ran, and the script does nothing more
\* (the next step of the slot is a new invocation, not a retry).
C7_FetchFailureAborts ==
    /\ [](\A p \in Procs :
            response[p].status = "error"
            => (/\ pc[p] = "done"
                /\ store = runStart[p]
                /\ runLog[p] = NewLog
                /\ threads[p] = <<>>))
    /\ [][\A p \in Procs :
            (response[p].status = "error" /\ pc'[p] # pc[p])
            => (budget' = budget - 1 /\ response'[p].status = "none")]_vars

C7_Witness ==
    /\ last.op = "fetch" /\ last.out = "error"
    /\ pc[1] = "done"
    /\ Len(store) >= 1

\* C8: a failed notification changes nothing but the log: the row written for
\* it stays, the cleanup for that insert runs, and the loop goes on to the
\* later thread items of the page.
C8_NotifyFailureHarmless ==
    /\ [][\A p \in Procs :
            (pc[p] = "notify" /\ last'.op = "notify" /\ last'.p = p
                /\ last'.out = "error")
            => (/\ store' = store
                /\ Current(p).text \in Titles(store')
                /\ pc'[p] = "cleanup"
                /\ idx'[p] = idx[p]
                /\ threads'[p] = threads[p])]_vars
    /\ [](\A p \in Procs :
            pc[p] \in {"loop", "done"} => runLog[p].passes = runLog[p].notes)
    /\ [](\A p \in Procs :
            (pc[p] = "done" /\ response[p].status = "ok")
            => idx[p] = Len(threads[p]) + 1)

C8_Witness ==
    /\ pc[1] = "done"
    /\ Len(threads[1]) = 2
    /\ runLog[1].noteFails = 2 /\ runLog[1].notes = 2 /\ runLog[1].passes = 2
    /\ Len(store) = 2

\* the title of the current item is not the title of an item before it
FirstListing(p) ==
    \A j \in 1..(idx[p] - 1) : threads[p][j].text # Current(p).text

\* C9: a sqlite3.Error on the INSERT of a qualifying deal writes no row and
\* notifies nothing for it in this invocation, the loop goes on with the next
\* item, and a later invocation that lists the thread finds its title unseen
\* (and so inserts and notifies it).
C9_InsertErrorDropsForThisRun ==
    /\ [][\A p \in Procs :
            (pc[p] = "insert" /\ last'.op = "insert" /\ last'.p = p
                /\ last'.out # "ok")
            => (/\ store' = store
                /\ notified' = notified
                /\ pc'[p] = "loop"
                /\ idx'[p] = idx[p] + 1)]_vars
    /\ [](\A p \in Procs :
            /\ dropped[p].now \cap Titles(store) = {}
            /\ pc[p] = "notify" => Current(p).text \notin dropped[p].now)
    /\ [](\A p \in Procs :
            (/\ pc[p] = "loop" /\ idx[p] <= Len(threads[p])
             /\ Current(p).link
             /\ Current(p).text \in dropped[p].before
             /\ ~Filtered(Current(p))
             /\ AboveThreshold(ThreadRatio(Current(p)))
             /\ FirstListing(p))
            => (/\ Current(p).text \notin seen_titles[p]
                /\ Current(p).text \notin Titles(store)))

\* C10: a thread item whose title is absent or empty is never inserted, never
\* notified, and never an error, whatever its counts.
C10_NoTitleDisqualified ==
    \A p \in Procs :
        (pc[p] \in {"insert", "notify", "cleanup", "delete", "crashed"}
            /\ idx[p] \in 1..Len(threads[p]))
        => TitleTruthy(Current(p))

\* the rule of the claim, on the integer counts of a thread item
OverTwiceReplies(th) ==
    Replies(th) = 0 \/ Upvotes(th) > 2 * Replies(th)

\* the item has a title that is neither empty, nor filtered, nor seen by p
FreshTitle(p, th) ==
    TitleTruthy(th) /\ ~Filtered(th) /\ th.text \notin seen_titles[p]

\* C11: an item with a non-empty, unfiltered, unseen title goes to the INSERT
\* exactly when replies = 0 or upvotes > 2 * replies (upvotes = 2 * replies does
\* not); the INSERT then writes its row and the notification is attempted, and
\* nothing is inserted or notified for an item that fails the rule.
C11_ThresholdRule ==
    /\ [][\A p \in Procs :
            (/\ pc[p] = "loop" /\ last'.op = "evaluate" /\ last'.p = p
             /\ FreshTitle(p, Current(p)))
            => (pc'[p] = "insert" <=> OverTwiceReplies(Current(p)))]_vars
    /\ [][\A p \in Procs :
            (pc[p] = "insert" /\ last'.op = "insert" /\ last'.p = p
                /\ last'.out = "ok" /\ TitleTruthy(Current(p))
                /\ Current(p).text \notin Titles(store))
            => (/\ pc'[p] = "notify"
                /\ \E i \in 1..Len(store') :
                      /\ store'[i].title = Current(p).text
                      /\ store'[i].upvotes = Upvotes(Current(p))
                      /\ store'[i].replies = Replies(Current(p))
                /\ OverTwiceReplies(Current(p)))]_vars
    /\ [](\A p \in Procs :
            (pc[p] \in {"insert", "notify", "cleanup", "delete"})
            => OverTwiceReplies(Current(p)))

C11_Witness ==
    /\ last.op = "evaluate" /\ last.out = "skip"
    /\ idx[1] = 3
    /\ threads[1][1] = Item(TRUE, Title(3), "3", FALSE, 0, FALSE, 0)
    /\ threads[1][2] = ThreadItem(1, 4, 2)
    /\ Title(3) \in Titles(store) /\ Title(3) \in DOMAIN notified
    /\ Title(1) \notin Titles(store) /\ Title(1) \notin seen_titles[1]

\* the characters of one of the filtered keywords occur in t, one after the other
HasKeyword(t) ==
    \E kw \in Keywords : \E i \in 1..Len(t) :
        /\ i + Len(kw) - 1 <= Len(t)
        /\ \A k \in 1..Len(kw) : t[i + k - 1] = kw[k]

\* C12: a thread whose title contains a filtered keyword is never at the
\* INSERT, never has a row and is never notified, whatever its counts, in any
\* invocation.
C12_KeywordNeverStored ==
    /\ \A p \in Procs :
          (pc[p] \in {"insert", "notify", "cleanup", "delete"})
              => ~HasKeyword(Current(p).text)
    /\ \A t \in Titles(store) : ~HasKeyword(t)
    /\ \A t \in DOMAIN notified : ~HasKeyword(t)

C12_Witness ==
    /\ budget = 0
    /\ last.op = "evaluate" /\ last.out = "skip"
    /\ idx[1] = 3
    /\ threads[1][1].text = CostcoEast
    /\ threads[1][2].text = HotCostcoWestern
    /\ AboveThreshold(ThreadRatio(threads[1][2]))
    /\ threads[1][2].text \notin seen_titles[1]
    /\ CostcoEast \in Titles(store)

\* C13: when the fetch succeeded and the markup has no trending container, the
\* invocation has no thread items, raises nothing and ends normally, with the
\* table as it found it and nothing notified.
C13_NoContainerIsEmptyPage ==
    \A p \in Procs :
        (response[p].status = "ok" /\ ~response[p].container)
        => (/\ pc[p] \in {"parse", "loop", "done"}
            /\ threads[p] = <<>>
            /\ store = runStart[p]
            /\ runLog[p] = NewLog)

\* C14: an invocation whose fetch succeeded on a page with its container is
\* never stopped by an exception: whatever the items lack and whichever INSERT,
\* cleanup or notification fails, it is on its way through the items or done
\* with all of them.
C14_RunsToCompletion ==
    \A p \in Procs :
        (response[p].status = "ok" /\ response[p].container)
        => (/\ pc[p] # "crashed"
            /\ pc[p] = "done" => idx[p] = Len(threads[p]) + 1)

\* the table st has a row with the title, counts and url of the thread item th
HasRowOf(st, th) ==
    \E i \in 1..Len(st) :
        /\ st[i].title = th.text
        /\ st[i].upvotes = Upvotes(th)
        /\ st[i].replies = Replies(th)
        /\ st[i].ratio = ThreadRatio(th)
        /\ st[i].url = DealUrl(th)

\* C15: when a notification is attempted, the table already holds the committed
\* row of that thread item (its title, counts and url), written by the INSERT
\* of that item; an item whose INSERT raised or wrote nothing is not notified.
C15_PersistedBeforeNotified ==
    /\ [](\A p \in Procs : pc[p] = "notify" => HasRowOf(store, Current(p)))
    /\ [][notified' # notified
            => \E p \in Procs :
                 /\ last'.op = "notify" /\ last'.p = p
                 /\ pc[p] = "notify"
                 /\ lastInsert[p] = "added"
                 /\ HasRowOf(store, Current(p))
                 /\ notified' = TallyOne(notified, Current(p).text)]_vars
    /\ [][\A p \in Procs :
            (pc[p] = "insert" /\ last'.op = "insert" /\ last'.p = p
                /\ last'.out # "ok")
            => (pc'[p] # "notify" /\ notified' = notified)]_vars

\* the stored ratio of the row is the quotient of its stored counts
RatioOfCounts(r) == r.ratio = Ratio(r.upvotes, r.replies)

\* how many rows of st, its oldest, are no longer in st2
LeftBy(st, st2) ==
    IF Len(st2) = 0 THEN Len(st)
    ELSE Cardinality({ i \in 1..Len(st) : st[i].id < st2[1].id })

\* C16: rows leave the table only through the DELETE of a cleanup pass, and no
\* step changes a field of a row that stays. In every step the rows that stay
\* are as they were and in their order, and what is new comes after them; rows
\* leave only in a commit of the invocation whose cleanup deleted them (the
\* commit of the DELETE, or the next commit of that connection when the first
\* one raised), and they are the rows the commits have evicted. Every stored
\* ratio is the quotient of the stored upvotes and replies: it is so at the
\* start and for every row that is new, and rows do not change.
C16_RowsWriteOnce ==
    /\ \A i \in 1..Len(store) : RatioOfCounts(store[i])
    /\ [][LET k == LeftBy(store, store')
              kept == Len(store) - k
          IN  /\ Len(store') >= kept
              /\ SubSeq(store', 1, kept) = SubSeq(store, k + 1, Len(store))
              /\ \A i \in (kept + 1)..Len(store') : RatioOfCounts(store'[i])
              /\ k > 0 =>
                    /\ last'.op \in {"cleanup", "insert"} /\ last'.out = "ok"
                    /\ \/ pc[last'.p] = "delete"
                       \/ /\ txn[last'.p].open
                          /\ LeftBy(store, txn[last'.p].table) = k
                    /\ evicted' = evicted \o SubSeq(store, 1, k)]_vars

\* The second invocation's INSERT was ignored and left the row with the counts
\* of the first; the commit of the first invocation's DELETE raised, and the
\* commit of its second INSERT has just taken the 50 rows out of the table
C16_Witness ==
    /\ last.op = "insert" /\ last.p = 1 /\ last.out = "ok" /\ idx[1] = 2
    /\ runLog[1].errors = 1 /\ runLog[1].evicted = EvictBatch
    /\ Len(evicted) = EvictBatch
    /\ lastInsert[2] = "ignored"
    /\ \E i \in 1..Len(store) :
          /\ store[i].title = threads[2][1].text
          /\ store[i].upvotes # Upvotes(threads[2][1])

\* notification attempts for the title t so far
TimesNotified(t) == IF t \in DOMAIN notified THEN notified[t] ELSE 0

\* C17: for serialized invocations, a title is at the INSERT only while the
\* table has no row of it, and when a notification is attempted for a title
\* notified before, a cleanup pass has deleted the row of each earlier
\* notification: the row of this notification has just been added, and the
\* rows of the title that were deleted are at least as many as the earlier
\* notifications.
C17_RenotifiedOnlyAfterEviction ==
    /\ [](\A p \in Procs :
            pc[p] = "insert" => Current(p).text \notin Titles(store))
    /\ [][\A p \in Procs :
            (pc[p] = "notify" /\ last'.op = "notify" /\ last'.p = p)
            => (/\ lastInsert[p] = "added"
                /\ Current(p).text \in Titles(store)
                /\ TimesEvicted(Current(p).text) >= TimesNotified(Current(p).text)
                /\ evicted' = evicted)]_vars

C17_Witness ==
    /\ last.op = "notify"
    /\ Current(1).text = Title(1)
    /\ notified[Title(1)] = 2
    /\ Len(evicted) = EvictBatch /\ evicted[1].title = Title(1)
    /\ Title(1) \in Titles(store)

\* no element occurs twice in the sequence q
NoRepeat(q) == \A i, j \in 1..Len(q) : q[i] = q[j] => i = j

\* C18: within one invocation no title is INSERTed twice and none is notified
\* twice, also when the page lists a title more than once, when its first
\* INSERT raised sqlite3.Error, and when a cleanup pass of this invocation has
\* deleted its row; seen_titles only grows while the invocation runs.
C18_OncePerTitleWithinRun ==
    /\ [](\A p \in Procs :
            NoRepeat(runLog[p].tried) /\ NoRepeat(runLog[p].told))
    /\ [][\A p \in Procs :
            Active(p) /\ Active(p)' => seen_titles[p] \subseteq seen_titles'[p]]_vars

C18_Witness ==
    /\ pc[1] = "done"
    /\ threads[1] = <<ThreadItem(Cap + 1, 5, 1), ThreadItem(1, 9, 2)>>
    /\ runLog[1].evicted = EvictBatch
    /\ runLog[1].told = <<Title(Cap + 1)>>
    /\ Title(1) \notin Titles(store)
    /\ prevRun[1].page.items = <<ThreadItem(Cap + 1, 5, 1), ThreadItem(Cap + 1, 5, 1)>>
    /\ prevRun[1].drops = {Title(Cap + 1)}

\* C19: for serialized invocations, from the load of line 75 on seen_titles
\* holds every title of the table, committed or pending on the connection, so
\* every INSERT that raises nothing adds exactly one row to the table as the
\* connection saw it: INSERT OR IGNORE never ignores.
C19_SeenCoversStore ==
    /\ [](\A p \in Procs :
            (pc[p] # "idle" /\ ~(pc[p] = "crashed" /\ response[p].status = "none"))
            => /\ \A i \in DOMAIN store : store[i].title \in seen_titles[p]
               /\ \A i \in DOMAIN View(p) :
                     View(p)[i].title \in seen_titles[p])
    /\ [][\A p \in Procs :
            (pc[p] = "insert" /\ last'.op = "insert" /\ last'.p = p
                /\ last'.out = "ok")
            => (/\ Len(store') = Len(View(p)) + 1
                /\ store'[Len(store')].title = Current(p).text
                /\ SubSeq(store', 1, Len(View(p))) = View(p)
                /\ lastInsert'[p] = "added")]_vars

\* The commit of the first INSERT raised and the second INSERT added its row to
\* the table that held the first one's; the cleanup then deleted 50 rows, whose
\* titles stay in seen_titles
C19_Witness ==
    /\ last.op = "cleanup" /\ last.out = "ok"
    /\ lastInsert[1] = "added"
    /\ runLog[1].tried = <<Title(Cap + 1), Title(Cap + 2)>>
    /\ runLog[1].told = <<Title(Cap + 2)>>
    /\ runLog[1].evicted = EvictBatch
    /\ Title(1) \in seen_titles[1] \ Titles(store)
    /\ budget = 0

====
